---- MODULE Spec2Model ----
(***************************************************************************)
(* Model of the IT support RAG chatbot: threshold retrieval, conversation  *)
(* history and prompt assembly (chatbot.py), and the ticket functions      *)
(* (function_calling.py).                                                  *)
(*                                                                         *)
(* Numbers.  A distance is a non-negative integer (the squared L2 distance *)
(* of one-dimensional integer embeddings).  A threshold is an integer      *)
(* number of tenths (7 stands for 0.7).  A similarity 1/(1+d) is kept as   *)
(* the exact fraction <<1, 1+d>> and compared by cross multiplication.     *)
(***************************************************************************)
EXTENDS Integers, Sequences, FiniteSets, TLC

VARIABLES
    vector_store,          \* the loaded index: sequence of chunk records
    similarity_threshold,  \* ITSupportChatbot.similarity_threshold, in tenths
    chat_history,          \* ITSupportChatbot.chat_history
    ret,                   \* outcome of the last completed chatbot call
    tset,                  \* outcome of the last set_similarity_threshold call
    prompt,                \* the prompt assembled by the last chain run
    log,                   \* history: turns appended since the last reset
    calls,                 \* history: number of chatbot calls made
    TICKET_DATABASE,       \* function_calling.TICKET_DATABASE
    TICKET_COUNTER,        \* function_calling.TICKET_COUNTER
    issued,                \* history: ticket ids returned, in call order
    fret,                  \* outcome of the last completed ticket call
    pc,                    \* per thread: position in create_support_ticket
    ticketLocal,           \* per thread: the ticket dict being built
    counterLocal,          \* per thread: value loaded by TICKET_COUNTER += 1
    rq,                    \* history: the last two retrieval calls
    articles,              \* outcome of the last get_relevant_articles call
    dret,                  \* outcome of the last execute_function call
    session,               \* st.session_state: chatbot, initialized, error
    pm                     \* a process_message call in progress, step by step

chatVars   == <<vector_store, similarity_threshold, chat_history, ret, tset,
                prompt, log, calls>>
ticketVars == <<TICKET_DATABASE, TICKET_COUNTER, issued, fret>>
threadVars == <<pc, ticketLocal, counterLocal>>
auxVars    == <<articles, dret, session, pm>>
vars       == <<chatVars, ticketVars, threadVars, rq, auxVars>>

----------------------------------------------------------------------------
(* Bounds *)
MaxCalls   == 7      \* chatbot calls per behaviour
MaxPos     == 2      \* largest chunk embedding drawn for a built index
MaxK       == 2      \* largest k handed to a retrieval call
MaxTickets == 4      \* tickets created per behaviour
MaxCreates == 2      \* create_support_ticket calls of a concurrent run
MaxSignalled == 3    \* requests of a run whose generation may signal a call
MaxDispatched == 3   \* tickets created through the dispatcher per behaviour
MaxStepped == 2      \* requests of a run that is followed statement by statement

(* Program constants *)
TScale      == 10    \* thresholds are counted in tenths
HistoryCap  == 10
HistoryView == 6
ChainK      == 3
PreviewLen  == 200
ArticlePreviewLen == 300
CounterInit == 1000
DefaultThreshold == 7

None == "None"

Min(a, b) == IF a < b THEN a ELSE b
Max(a, b) == IF a > b THEN a ELSE b

\* Python s[-n:] for n > 0
PySliceLast(s, n) == SubSeq(s, Max(1, Len(s) - n + 1), Len(s))
\* Python s[:n] for n >= 0
PySliceFirst(s, n) == SubSeq(s, 1, Min(n, Len(s)))

----------------------------------------------------------------------------
(* The index.  A chunk carries its metadata, its text and its embedding    *)
(* (a point on the integer line); a query is embedded the same way.        *)

Queries == {"reset password", "quantum physics"}

\* the embeddings service: query -> vector
EmbedQuery(q) == IF q = "reset password" THEN 0 ELSE 4

Chunk(id, idx, text, emb) ==
    [id |-> id, title |-> "How to Reset Your Password", category |-> "password",
     chunk |-> idx, page_content |-> text, emb |-> emb]

\* the index files written by build_vector_store.py, as loaded
KnowledgeIndex ==
    << Chunk("KB001", 0, <<"r", "e", "s", "e", "t">>, 0),
       Chunk("KB001", 1, <<"p", "w">>, 1),
       Chunk("KB002", 0, <<"v", "p", "n">>, 2),
       Chunk("KB003", 0, <<"m", "a", "i", "l">>, 1) >>

\* an index over the same three chunks, embedded at positions e
BuiltIndex(e) ==
    << Chunk("KB001", 0, <<"r", "e", "s", "e", "t">>, e[1]),
       Chunk("KB001", 1, <<"p", "w">>, e[2]),
       Chunk("KB002", 0, <<"v", "p", "n">>, e[3]) >>

Stores == {BuiltIndex(e) : e \in [1..3 -> 0..MaxPos]}

\* FAISS L2 score of a chunk for a query vector: squared distance
L2(qv, c) == (c.emb - qv) * (c.emb - qv)

\* insert one (doc, score) pair into a list kept ascending by score;
\* equal scores keep index order
RECURSIVE InsertByScore(_, _)
InsertByScore(p, s) ==
    IF s = <<>> THEN <<p>>
    ELSE IF p.score < Head(s).score THEN <<p>> \o s
    ELSE <<Head(s)>> \o InsertByScore(p, Tail(s))

RECURSIVE SortByScore(_)
SortByScore(s) ==
    IF s = <<>> THEN <<>>
    ELSE InsertByScore(Head(s), SortByScore(Tail(s)))

\* vector_store.similarity_search_with_score(query, k=n): the n nearest
\* chunks with their scores, nearest first
similarity_search_with_score(store, qv, n) ==
    LET scored == [i \in 1..Len(store) |->
                      [doc |-> store[i], score |-> L2(qv, store[i])]]
        \* SortByScore inserts from the tail, so reverse to keep ties in
        \* index order
        rev    == [i \in 1..Len(scored) |-> scored[Len(scored) + 1 - i]]
    IN  PySliceFirst(SortByScore(rev), n)

----------------------------------------------------------------------------
(* Threshold retrieval *)

\* similarity = 1 / (1 + score), as an exact fraction
Similarity(score) == <<1, 1 + score>>

\* variant: the raw distance is compared with the threshold
MeetsThreshold_Distance(sim, threshold) == (sim[2] - 1) * TScale <= threshold

\* variant: the comparison is turned round
MeetsThreshold_Inverted(sim, threshold) == sim[1] * TScale <= threshold * sim[2]

\* similarity >= self.similarity_threshold  (threshold in tenths)
MeetsThreshold(sim, threshold) == sim[1] * TScale >= threshold * sim[2]

\* variant: the loop without its break
RECURSIVE FilterLoop_NoBreak(_, _, _, _)
FilterLoop_NoBreak(docs_with_scores, threshold, k, filtered) ==
    IF docs_with_scores = <<>> THEN filtered
    ELSE LET p    == Head(docs_with_scores)
             sim  == Similarity(p.score)
             f2   == IF MeetsThreshold(sim, threshold)
                     THEN Append(filtered, [doc |-> p.doc, similarity |-> sim])
                     ELSE filtered
         IN  FilterLoop_NoBreak(Tail(docs_with_scores), threshold, k, f2)

\* the for loop of _retrieve_with_threshold over docs_with_scores
RECURSIVE FilterLoop(_, _, _, _)
FilterLoop(docs_with_scores, threshold, k, filtered) ==
    IF docs_with_scores = <<>> THEN filtered
    ELSE LET p    == Head(docs_with_scores)
             sim  == Similarity(p.score)
             keep == MeetsThreshold(sim, threshold)
             f2   == IF keep
                     THEN Append(filtered, [doc |-> p.doc, similarity |-> sim])
                     ELSE filtered
         IN  IF keep /\ Len(f2) >= k THEN f2
             ELSE FilterLoop(Tail(docs_with_scores), threshold, k, f2)

\* the k handed to similarity_search_with_score: k * 2
FetchCount(k) == k * 2

\* one call _retrieve_with_threshold(query, k): what it asks of the index,
\* what the index returns, and the filtered documents, each paired with the
\* similarity the loop computed for it
RetrievalCall(store, threshold, query, k) ==
    LET asked   == FetchCount(k)
        fetched == similarity_search_with_score(store, EmbedQuery(query), asked)
    IN  [query |-> query, k |-> k, threshold |-> threshold, asked |-> asked,
         fetched |-> fetched,
         result |-> FilterLoop(fetched, threshold, k, <<>>)]

Docs(scored) == [i \in 1..Len(scored) |-> scored[i].doc]

_retrieve_with_threshold(store, threshold, query, k) ==
    Docs(RetrievalCall(store, threshold, query, k).result)

----------------------------------------------------------------------------
(* Prompt assembly.  A rendered string is the sequence of the string       *)
(* pieces that are concatenated to make it.                                *)

NoInfoSentinel    == <<"No relevant information found in the knowledge base.">>
NoHistorySentinel == <<"No previous conversation.">>

RECURSIVE Join(_, _)
\* sep.join(parts)
Join(parts, sep) ==
    IF parts = <<>> THEN <<>>
    ELSE IF Len(parts) = 1 THEN Head(parts)
    ELSE Head(parts) \o sep \o Join(Tail(parts), sep)

FormatDoc(i, doc) ==
    <<"Article ", ToString(i), " (ID: ", doc.id, "):\n",
      "Title: ", doc.title, "\n",
      "Category: ", doc.category, "\n",
      "Content: ">> \o doc.page_content \o <<"\n">>

\* variant: no special case for an empty list
_format_docs_NoSentinel(docs) ==
    Join([i \in 1..Len(docs) |-> FormatDoc(i, docs[i])], <<"\n---\n">>)

_format_docs(docs) ==
    IF docs = <<>> THEN NoInfoSentinel
    ELSE Join([i \in 1..Len(docs) |-> FormatDoc(i, docs[i])], <<"\n---\n">>)

HumanMessage(content) == [role |-> "user", content |-> content]
AIMessage(content)    == [role |-> "assistant", content |-> content]

FormatMsg(msg) ==
    IF msg.role = "user" THEN <<"User: ", msg.content>>
    ELSE <<"Assistant: ", msg.content>>

\* variant: the window is rendered newest first
_format_chat_history_NewestFirst(history) ==
    IF history = <<>> THEN NoHistorySentinel
    ELSE LET recent == PySliceLast(history, HistoryView)
         IN  Join([i \in 1..Len(recent) |->
                      FormatMsg(recent[Len(recent) + 1 - i])], <<"\n">>)

_format_chat_history(history) ==
    IF history = <<>> THEN NoHistorySentinel
    ELSE LET recent == PySliceLast(history, HistoryView)
         IN  Join([i \in 1..Len(recent) |-> FormatMsg(recent[i])], <<"\n">>)

\* the RunnableParallel step of the chain: the three slots of the template
ChainInputs(store, threshold, history, question) ==
    [context      |-> _format_docs(
                          _retrieve_with_threshold(store, threshold, question, ChainK)),
     chat_history |-> _format_chat_history(history),
     question     |-> question]

----------------------------------------------------------------------------
(* process_message *)

\* faults of the external services during one request
Faults  == {"none", "retrieval", "chain", "generation"}
\* texts the generation service returns
Answers == {"Follow the steps of the article."}

\* f"I encountered an error processing your request: {str(e)}"
ErrorMsg(fault) ==
    CASE fault = "retrieval"
           -> "I encountered an error processing your request: embedding request failed"
      [] fault = "chain"
           -> "I encountered an error processing your request: embedding request failed in chain"
      [] fault = "generation"
           -> "I encountered an error processing your request: generation request failed"

\* variant: the history is never cut
Truncate_Never(history) == history

\* variant: the slice keeps the head of the list
Truncate_KeepOldest(history) ==
    IF Len(history) > HistoryCap THEN PySliceFirst(history, HistoryCap)
    ELSE history

\* variant: the slice keeps one turn fewer than the cap
Truncate_OddWindow(history) ==
    IF Len(history) > HistoryCap THEN PySliceLast(history, HistoryCap - 1)
    ELSE history

\* self.chat_history = self.chat_history[-10:] when longer than 10
Truncate(history) ==
    IF Len(history) > HistoryCap THEN PySliceLast(history, HistoryCap)
    ELSE history

FormatSource(doc) ==
    [id |-> doc.id, title |-> doc.title, category |-> doc.category,
     content_preview |-> PySliceFirst(doc.page_content, PreviewLen) \o <<"...">>]

NoPrompt == [context |-> <<>>, chat_history |-> <<>>, question |-> None]

\* variant: the user turn is appended before the chain runs
TryBody_AppendFirst(store, threshold, history, oldPrompt, user_message, fault, answer) ==
    LET source_docs == _retrieve_with_threshold(store, threshold, user_message, ChainK)
        withUser    == Append(history, HumanMessage(user_message))
        inputs      == ChainInputs(store, threshold, withUser, user_message)
    IN  IF fault = "retrieval"
        THEN [raised |-> TRUE, chat_history |-> history, prompt |-> oldPrompt,
              added |-> <<>>, value |-> None]
        ELSE IF fault = "chain"
        THEN [raised |-> TRUE, chat_history |-> withUser, prompt |-> oldPrompt,
              added |-> <<HumanMessage(user_message)>>, value |-> None]
        ELSE IF fault = "generation"
        THEN [raised |-> TRUE, chat_history |-> withUser, prompt |-> inputs,
              added |-> <<HumanMessage(user_message)>>, value |-> None]
        ELSE [raised |-> FALSE,
              chat_history |-> Truncate(Append(withUser, AIMessage(answer))),
              prompt |-> inputs,
              added |-> <<HumanMessage(user_message), AIMessage(answer)>>,
              value |-> [response_text   |-> answer,
                         sources         |-> [i \in 1..Len(source_docs) |->
                                                 FormatSource(source_docs[i])],
                         function_result |-> None]]

\* the body of the try block: where it stops, and the state it leaves
TryBody(store, threshold, history, oldPrompt, user_message, fault, answer) ==
    LET source_docs == _retrieve_with_threshold(store, threshold, user_message, ChainK)
        inputs      == ChainInputs(store, threshold, history, user_message)
        appended    == Append(Append(history, HumanMessage(user_message)),
                              AIMessage(answer))
    IN  IF fault = "retrieval" \/ fault = "chain"
        THEN [raised |-> TRUE, chat_history |-> history, prompt |-> oldPrompt,
              added |-> <<>>, value |-> None]
        ELSE IF fault = "generation"
        THEN [raised |-> TRUE, chat_history |-> history, prompt |-> inputs,
              added |-> <<>>, value |-> None]
        ELSE [raised |-> FALSE, chat_history |-> Truncate(appended),
              prompt |-> inputs,
              added |-> <<HumanMessage(user_message), AIMessage(answer)>>,
              value |-> [response_text   |-> answer,
                         sources         |-> [i \in 1..Len(source_docs) |->
                                                 FormatSource(source_docs[i])],
                         function_result |-> None]]

\* variant: no except clause
process_message_NoCatch(store, threshold, history, oldPrompt, user_message, fault, answer) ==
    TryBody(store, threshold, history, oldPrompt, user_message, fault, answer)

\* try: ... except Exception as e: return error_msg, [], None
process_message(store, threshold, history, oldPrompt, user_message, fault, answer) ==
    LET b == TryBody(store, threshold, history, oldPrompt, user_message, fault, answer)
    IN  IF b.raised
        THEN [b EXCEPT !.raised = FALSE,
                       !.value  = [response_text   |-> ErrorMsg(fault),
                                   sources         |-> <<>>,
                                   function_result |-> None]]
        ELSE b

\* a reply of the generation service without a function_call directive
NoCall == [name |-> None, arguments |-> <<>>]

NoRet == [op |-> "init", fault |-> "none", raised |-> FALSE, value |-> None,
          question |-> None, threshold |-> 0, signal |-> NoCall]

\* the generation service replies with the content `answer` and the directive
\* `function_call`; StrOutputParser hands process_message the content only
ProcessMessage(user_message, fault, answer, function_call) ==
    /\ calls < MaxCalls
    /\ \E r \in {process_message(vector_store, similarity_threshold,
                                  chat_history, prompt, user_message, fault,
                                  answer)} :
           /\ chat_history' = r.chat_history
           /\ prompt' = r.prompt
           /\ log' = log \o r.added
           /\ ret' = [op |-> "process_message", fault |-> fault,
                      raised |-> r.raised, value |-> r.value,
                      question |-> user_message,
                      threshold |-> similarity_threshold,
                      signal |-> IF fault = "none" THEN function_call
                                 ELSE NoCall]
    /\ calls' = calls + 1
    /\ UNCHANGED <<vector_store, similarity_threshold, tset>>
    /\ UNCHANGED <<ticketVars, threadVars, rq, auxVars>>

\* variant: the last exchange survives the reset
reset_conversation_KeepsLast ==
    /\ calls < MaxCalls
    /\ chat_history' = PySliceLast(chat_history, 2)
    /\ log' = <<>>
    /\ ret' = [NoRet EXCEPT !.op = "reset_conversation"]
    /\ calls' = calls + 1
    /\ UNCHANGED <<vector_store, similarity_threshold, tset, prompt>>
    /\ UNCHANGED <<ticketVars, threadVars, rq, auxVars>>

reset_conversation ==
    /\ calls < MaxCalls
    /\ chat_history' = <<>>
    /\ log' = <<>>
    /\ ret' = [NoRet EXCEPT !.op = "reset_conversation"]
    /\ calls' = calls + 1
    /\ UNCHANGED <<vector_store, similarity_threshold, tset, prompt>>
    /\ UNCHANGED <<ticketVars, threadVars, rq, auxVars>>

\* variant: the value is stored without the range check
SetThreshold_Unchecked(current, threshold) ==
    [threshold |-> threshold, raised |-> FALSE, printed |-> "updated"]

\* the body of set_similarity_threshold: the threshold it leaves, whether it
\* raises, and the message it prints (thresholds in tenths)
SetThreshold(current, threshold) ==
    IF 0 <= threshold /\ threshold <= TScale
    THEN [threshold |-> threshold, raised |-> FALSE, printed |-> "updated"]
    ELSE [threshold |-> current, raised |-> FALSE, printed |-> "invalid"]

NoTset == [op |-> "init", value |-> 0, raised |-> FALSE, printed |-> "none"]

set_similarity_threshold(threshold) ==
    /\ LET r == SetThreshold(similarity_threshold, threshold)
       IN  /\ similarity_threshold' = r.threshold
           /\ tset' = [op |-> "set_similarity_threshold", value |-> threshold,
                       raised |-> r.raised, printed |-> r.printed]
    /\ UNCHANGED <<vector_store, chat_history, ret, prompt, log, calls>>
    /\ UNCHANGED <<ticketVars, threadVars, rq, auxVars>>

\* a caller runs _retrieve_with_threshold(query, k); rq keeps this call and
\* the one before it
Retrieve(query, k) ==
    /\ rq' = <<RetrievalCall(vector_store, similarity_threshold, query, k), rq[1]>>
    /\ UNCHANGED <<chatVars, ticketVars, threadVars, auxVars>>

----------------------------------------------------------------------------
(* process_message statement by statement, for runs in which another      *)
(* thread changes the threshold while a request is in progress             *)

\* line 252: source_docs = self._retrieve_with_threshold(user_message, k=3)
PmRetrieve(user_message) ==
    /\ pm.pc \in {"idle", "returned"}
    /\ calls < MaxStepped
    /\ pm' = [pc          |-> "retrieved",
              question    |-> user_message,
              threshold   |-> similarity_threshold,
              before      |-> Len(log),
              source_docs |-> _retrieve_with_threshold(
                                 vector_store, similarity_threshold,
                                 user_message, ChainK),
              context_docs |-> <<>>,
              answer      |-> None,
              trace       |-> <<"retrieve">>]
    /\ UNCHANGED <<articles, dret, session>>
    /\ UNCHANGED <<chatVars, ticketVars, threadVars, rq>>

\* variant: the user turn is stored before the chain renders the history
PmAssemble_UserTurnFirst ==
    /\ pm.pc = "retrieved"
    /\ prompt' = ChainInputs(vector_store, similarity_threshold,
                             Append(chat_history, HumanMessage(pm.question)),
                             pm.question)
    /\ pm' = [pm EXCEPT !.pc = "assembled",
                        !.context_docs = _retrieve_with_threshold(
                                            vector_store, similarity_threshold,
                                            pm.question, ChainK),
                        !.trace = Append(pm.trace, "assemble")]
    /\ UNCHANGED <<vector_store, similarity_threshold, chat_history, ret, tset,
                   log, calls>>
    /\ UNCHANGED <<articles, dret, session>>
    /\ UNCHANGED <<ticketVars, threadVars, rq>>

\* line 255, chain.invoke: the RunnableParallel step retrieves again, renders
\* the history as it is now and fills the template
PmAssemble ==
    /\ pm.pc = "retrieved"
    /\ prompt' = ChainInputs(vector_store, similarity_threshold, chat_history,
                             pm.question)
    /\ pm' = [pm EXCEPT !.pc = "assembled",
                        !.context_docs = _retrieve_with_threshold(
                                            vector_store, similarity_threshold,
                                            pm.question, ChainK),
                        !.trace = Append(pm.trace, "assemble")]
    /\ UNCHANGED <<vector_store, similarity_threshold, chat_history, ret, tset,
                   log, calls>>
    /\ UNCHANGED <<articles, dret, session>>
    /\ UNCHANGED <<ticketVars, threadVars, rq>>

\* line 255, chain.invoke: prompt | llm | StrOutputParser returns the answer
PmGenerate(answer) ==
    /\ pm.pc = "assembled"
    /\ pm' = [pm EXCEPT !.pc = "generated", !.answer = answer,
                        !.trace = Append(pm.trace, "generate")]
    /\ UNCHANGED <<articles, dret, session>>
    /\ UNCHANGED <<chatVars, ticketVars, threadVars, rq>>

\* lines 258-263: the two appends and the cut to the last 10
PmAppend ==
    /\ pm.pc = "generated"
    /\ chat_history' = Truncate(Append(Append(chat_history,
                                              HumanMessage(pm.question)),
                                       AIMessage(pm.answer)))
    /\ log' = log \o <<HumanMessage(pm.question), AIMessage(pm.answer)>>
    /\ pm' = [pm EXCEPT !.pc = "appended",
                        !.trace = Append(pm.trace, "append")]
    /\ UNCHANGED <<vector_store, similarity_threshold, ret, tset, prompt, calls>>
    /\ UNCHANGED <<articles, dret, session>>
    /\ UNCHANGED <<ticketVars, threadVars, rq>>

\* lines 266-278: function_result = None, the sources are formatted from
\* source_docs, and the triple is returned
PmReturn ==
    /\ pm.pc = "appended"
    /\ ret' = [op |-> "process_message", fault |-> "none", raised |-> FALSE,
               value |-> [response_text   |-> pm.answer,
                          sources         |-> [i \in 1..Len(pm.source_docs) |->
                                                  FormatSource(pm.source_docs[i])],
                          function_result |-> None],
               question |-> pm.question, threshold |-> pm.threshold,
               signal |-> NoCall]
    /\ calls' = calls + 1
    /\ pm' = [pm EXCEPT !.pc = "returned",
                        !.trace = Append(pm.trace, "return")]
    /\ UNCHANGED <<vector_store, similarity_threshold, chat_history, tset,
                   prompt, log>>
    /\ UNCHANGED <<articles, dret, session>>
    /\ UNCHANGED <<ticketVars, threadVars, rq>>

----------------------------------------------------------------------------
(* Construction and the session initialization of app.py *)

\* what FAISS.load_local finds at the index path
LoadOutcomes == {"ok", "missing", "corrupt"}

\* no index object: the attribute vector_store was never assigned
NoStore == <<>>

\* variant: the except clause prints and returns nothing
_load_vector_store_Swallow(load) ==
    [raised |-> FALSE,
     value  |-> IF load = "ok" THEN KnowledgeIndex ELSE NoStore]

\* try: return FAISS.load_local(...)  except Exception: print; raise
_load_vector_store(load) ==
    IF load = "ok"
    THEN [raised |-> FALSE, value |-> KnowledgeIndex]
    ELSE [raised |-> TRUE, value |-> NoStore]

\* ITSupportChatbot(similarity_threshold=threshold): the threshold is stored
\* as given, then the index is loaded, then the history is created
ITSupportChatbot(threshold, load) ==
    LET v == _load_vector_store(load)
    IN  [raised |-> v.raised, similarity_threshold |-> threshold,
         vector_store |-> v.value, chat_history |-> <<>>]

NoSession   == [chatbot |-> FALSE, initialized |-> "unset", error |-> None]
LiveSession == [chatbot |-> TRUE, initialized |-> "true", error |-> None]

\* if 'chatbot' not in st.session_state: try: ... except Exception as e: ...
SessionInit(threshold, load) ==
    /\ ~session.chatbot
    /\ \E c \in {ITSupportChatbot(threshold, load)} :
          IF c.raised
          THEN /\ session' = [chatbot |-> FALSE, initialized |-> "false",
                              error |-> load]
               /\ UNCHANGED <<vector_store, similarity_threshold, chat_history>>
          ELSE /\ session' = LiveSession
               /\ vector_store' = c.vector_store
               /\ similarity_threshold' = c.similarity_threshold
               /\ chat_history' = c.chat_history
    /\ UNCHANGED <<ret, tset, prompt, log, calls>>
    /\ UNCHANGED <<articles, dret, pm>>
    /\ UNCHANGED <<ticketVars, threadVars, rq>>

\* chatbot = ITSupportChatbot(similarity_threshold=threshold) in a caller
\* without a handler: a failed load leaves no instance
Construct(threshold, load) ==
    /\ ~session.chatbot
    /\ \E c \in {ITSupportChatbot(threshold, load)} :
          IF c.raised
          THEN /\ session' = [chatbot |-> FALSE, initialized |-> "unset",
                              error |-> load]
               /\ UNCHANGED <<vector_store, similarity_threshold, chat_history>>
          ELSE /\ session' = LiveSession
               /\ vector_store' = c.vector_store
               /\ similarity_threshold' = c.similarity_threshold
               /\ chat_history' = c.chat_history
    /\ UNCHANGED <<ret, tset, prompt, log, calls>>
    /\ UNCHANGED <<articles, dret, pm>>
    /\ UNCHANGED <<ticketVars, threadVars, rq>>

\* the script passes "if not initialized: st.stop()" and reaches the chat
\* input only in an initialized session
Initialized == session.initialized = "true"

----------------------------------------------------------------------------
(* get_relevant_articles *)

\* vector_store.similarity_search(query, k): the k nearest chunks, unfiltered
similarity_search(store, query, k) ==
    Docs(similarity_search_with_score(store, EmbedQuery(query), k))

\* the dict appended for a chunk
FormatArticle(doc) ==
    [id |-> doc.id, title |-> doc.title, category |-> doc.category,
     preview |-> PySliceFirst(doc.page_content, ArticlePreviewLen) \o <<"...">>]

\* variant: seen_ids is never filled
RECURSIVE DedupLoop_NoSeen(_, _, _)
DedupLoop_NoSeen(docs, result, seen_ids) ==
    IF docs = <<>> THEN result
    ELSE DedupLoop_NoSeen(Tail(docs), Append(result, FormatArticle(Head(docs))),
                          seen_ids)

\* for doc in docs: if article_id not in seen_ids: append, seen_ids.add
RECURSIVE DedupLoop(_, _, _)
DedupLoop(docs, result, seen_ids) ==
    IF docs = <<>> THEN result
    ELSE IF Head(docs).id \notin seen_ids
    THEN DedupLoop(Tail(docs), Append(result, FormatArticle(Head(docs))),
                   seen_ids \cup {Head(docs).id})
    ELSE DedupLoop(Tail(docs), result, seen_ids)

\* variant: every query takes the unfiltered search
get_relevant_articles_Unfiltered(store, threshold, query, k) ==
    LET docs == similarity_search(store, query, k)
    IN  [query |-> query, k |-> k, threshold |-> threshold, docs |-> docs,
         result |-> DedupLoop(docs, <<>>, {})]

\* get_relevant_articles(query, k); an empty query is falsy and takes the
\* unfiltered search
get_relevant_articles(store, threshold, query, k) ==
    LET docs == IF query # ""
                THEN _retrieve_with_threshold(store, threshold, query, k)
                ELSE similarity_search(store, "", k)
    IN  [query |-> query, k |-> k, threshold |-> threshold, docs |-> docs,
         result |-> DedupLoop(docs, <<>>, {})]

GetRelevantArticles(query, k) ==
    /\ articles' = get_relevant_articles(vector_store, similarity_threshold,
                                         query, k)
    /\ UNCHANGED <<dret, session, pm>>
    /\ UNCHANGED <<chatVars, ticketVars, threadVars, rq>>

----------------------------------------------------------------------------
(* The ticket functions of function_calling.py *)

\* str.lower() on the priority strings callers pass
Lower(str) ==
    CASE str = "CRITICAL" -> "critical"
      [] str = "High"     -> "high"
      [] OTHER            -> str

\* variant: the fallback of times.get is the medium entry
get_resolution_time_MediumFallback(priority) ==
    IF priority = None
    THEN [raised |-> TRUE, value |-> None]
    ELSE LET key == Lower(priority)
         IN  [raised |-> FALSE,
              value  |-> CASE key = "low"      -> "3-5 business days"
                           [] key = "high"     -> "4-8 hours"
                           [] key = "critical" -> "1-2 hours"
                           [] OTHER            -> "1-2 business days"]

\* times.get(priority.lower(), "2-3 business days"); a priority that is not
\* a string has no lower() and raises AttributeError
get_resolution_time(priority) ==
    IF priority = None
    THEN [raised |-> TRUE, value |-> None]
    ELSE LET key == Lower(priority)
         IN  [raised |-> FALSE,
              value  |-> CASE key = "low"      -> "3-5 business days"
                           [] key = "medium"   -> "1-2 business days"
                           [] key = "high"     -> "4-8 hours"
                           [] key = "critical" -> "1-2 hours"
                           [] OTHER            -> "2-3 business days"]

\* variant: the id is numbered one past the counter
TicketId_OnePast(counter) == <<"INC", counter + 1>>

\* f"INC{TICKET_COUNTER}"
TicketId(counter) == <<"INC", counter>>

\* the ticket = {...} statement: reads TICKET_COUNTER and the clock, and
\* raises what get_resolution_time raises
BuildTicket(counter, title, description, category, priority, now) ==
    LET est == get_resolution_time(priority)
    IN  IF est.raised
        THEN [raised |-> TRUE, ticket |-> None]
        ELSE [raised |-> FALSE,
              ticket |-> [ticket_id            |-> TicketId(counter),
                          title                |-> title,
                          description          |-> description,
                          category             |-> category,
                          priority             |-> priority,
                          status               |-> "open",
                          created_at           |-> now,
                          estimated_resolution |-> est.value,
                          assigned_to          |-> "IT Support Team"]]

\* variant: the counter is not advanced
Increment_Forgotten(loaded) == loaded

\* TICKET_COUNTER += 1 applied to the value it loaded
Increment(loaded) == loaded + 1

\* variant: the new ticket is put in front of the stored ones
create_support_ticket_Prepend(db, counter, title, description, category, priority, now) ==
    LET b == BuildTicket(counter, title, description, category, priority, now)
    IN  IF b.raised
        THEN [raised |-> TRUE, db |-> db, counter |-> counter, value |-> None]
        ELSE [raised |-> FALSE, db |-> <<b.ticket>> \o db,
              counter |-> Increment(counter), value |-> b.ticket]

\* create_support_ticket run from start to end by one caller
create_support_ticket(db, counter, title, description, category, priority, now) ==
    LET b == BuildTicket(counter, title, description, category, priority, now)
    IN  IF b.raised
        THEN [raised |-> TRUE, db |-> db, counter |-> counter, value |-> None]
        ELSE [raised |-> FALSE, db |-> Append(db, b.ticket),
              counter |-> Increment(counter), value |-> b.ticket]

Titles       == {"VPN down"}
Descriptions == {"Cannot connect since this morning"}
Categories   == {"network", "coffee"}
Priorities   == {"low", "CRITICAL", "urgent", None}
DefaultPriority == "medium"
Clock        == {"2026-01-05 09:00:00"}

CreateTicket(title, description, category, priority, now) ==
    /\ Len(TICKET_DATABASE) < MaxTickets
    /\ LET r == create_support_ticket(TICKET_DATABASE, TICKET_COUNTER, title,
                                      description, category, priority, now)
       IN  /\ TICKET_DATABASE' = r.db
           /\ TICKET_COUNTER' = r.counter
           /\ issued' = IF r.raised THEN issued
                        ELSE Append(issued, r.value.ticket_id)
           /\ fret' = [op |-> "create_support_ticket", raised |-> r.raised,
                       value |-> r.value]
    /\ UNCHANGED <<chatVars, threadVars, rq, auxVars>>

----------------------------------------------------------------------------
(* Strings that the code inspects character by character are sequences of  *)
(* one-character strings.                                                  *)

UpperCase == <<"A", "B", "C", "D", "E", "F", "G", "H", "I", "J", "K", "L", "M",
               "N", "O", "P", "Q", "R", "S", "T", "U", "V", "W", "X", "Y", "Z">>
LowerCase == <<"a", "b", "c", "d", "e", "f", "g", "h", "i", "j", "k", "l", "m",
               "n", "o", "p", "q", "r", "s", "t", "u", "v", "w", "x", "y", "z">>

LowerChar(c) ==
    IF \E i \in 1..26 : UpperCase[i] = c
    THEN LowerCase[CHOOSE i \in 1..26 : UpperCase[i] = c]
    ELSE c

\* s.lower()
StrLower(s) == [i \in 1..Len(s) |-> LowerChar(s[i])]

\* s.replace(a, b) for one-character a and b
StrReplace(s, a, b) == [i \in 1..Len(s) |-> IF s[i] = a THEN b ELSE s[i]]

\* needle in hay
StrContains(hay, needle) ==
    \E i \in 0..(Len(hay) - Len(needle)) :
        SubSeq(hay, i + 1, i + Len(needle)) = needle

----------------------------------------------------------------------------
(* check_ticket_status, check_system_status, search_employee_directory *)

\* variant: a hit reports the fields of the newest ticket
check_ticket_status_Newest(db, ticket_id) ==
    IF \E i \in 1..Len(db) : db[i].ticket_id = ticket_id
    THEN LET ticket == db[Len(db)]
         IN  [found                |-> TRUE,
              ticket_id            |-> ticket_id,
              status               |-> ticket.status,
              title                |-> ticket.title,
              priority             |-> ticket.priority,
              created_at           |-> ticket.created_at,
              estimated_resolution |-> ticket.estimated_resolution]
    ELSE [found |-> FALSE,
          message |-> <<"Ticket ", ticket_id, " not found in the system">>]

\* the first ticket of the database with this id, as the for loop finds it
check_ticket_status(db, ticket_id) ==
    IF \E i \in 1..Len(db) : db[i].ticket_id = ticket_id
    THEN LET i      == CHOOSE n \in 1..Len(db) :
                          /\ db[n].ticket_id = ticket_id
                          /\ \A m \in 1..(n - 1) : db[m].ticket_id # ticket_id
             ticket == db[i]
         IN  [found                |-> TRUE,
              ticket_id            |-> ticket.ticket_id,
              status               |-> ticket.status,
              title                |-> ticket.title,
              priority             |-> ticket.priority,
              created_at           |-> ticket.created_at,
              estimated_resolution |-> ticket.estimated_resolution]
    ELSE [found |-> FALSE,
          message |-> <<"Ticket ", ticket_id, " not found in the system">>]

\* the systems dict of check_system_status
SystemNames ==
    {<<"e", "m", "a", "i", "l">>,
     <<"v", "p", "n">>,
     <<"f", "i", "l", "e", "_", "s", "e", "r", "v", "e", "r">>,
     <<"i", "n", "t", "e", "r", "n", "e", "t">>,
     <<"o", "f", "f", "i", "c", "e", "3", "6", "5">>,
     <<"p", "r", "i", "n", "t", "e", "r">>}

SystemEntry(key) ==
    CASE key = <<"e", "m", "a", "i", "l">> ->
           [status |-> "operational", uptime |-> "99.9%", last_incident |-> "2 days ago"]
      [] key = <<"v", "p", "n">> ->
           [status |-> "operational", uptime |-> "99.5%", last_incident |-> "5 days ago"]
      [] key = <<"f", "i", "l", "e", "_", "s", "e", "r", "v", "e", "r">> ->
           [status |-> "operational", uptime |-> "99.8%", last_incident |-> "1 day ago"]
      [] key = <<"i", "n", "t", "e", "r", "n", "e", "t">> ->
           [status |-> "operational", uptime |-> "99.95%", last_incident |-> "10 days ago"]
      [] key = <<"o", "f", "f", "i", "c", "e", "3", "6", "5">> ->
           [status |-> "operational", uptime |-> "99.9%", last_incident |-> "3 days ago"]
      [] key = <<"p", "r", "i", "n", "t", "e", "r">> ->
           [status |-> "degraded", uptime |-> "95%", last_incident |-> "2 hours ago",
            note |-> "Building B printers experiencing delays"]

\* system_name.lower().replace(" ", "_")
NormalizeSystemName(system_name) == StrReplace(StrLower(system_name), " ", "_")

\* {"system": system_name, **systems[system_name]}
WithSystem(key, entry) ==
    [f \in DOMAIN entry \cup {"system"} |->
        IF f = "system" THEN key ELSE entry[f]]

check_system_status(system_name) ==
    LET key == NormalizeSystemName(system_name)
    IN  IF key \in SystemNames
        THEN WithSystem(key, SystemEntry(key))
        ELSE [system  |-> key,
              status  |-> "unknown",
              message |-> "System not monitored or invalid system name"]

Employee(name, email, department, phone) ==
    [name |-> name, email |-> email, department |-> department,
     phone |-> phone, location |-> "Building A, Floor 3"]

\* the employees list of search_employee_directory
Employees ==
    << Employee(<<"J", "o", "h", "n", " ", "S", "m", "i", "t", "h">>,
                <<"j", "o", "h", "n", ".", "s", "m", "i", "t", "h", "@", "c", "o", "m", "p", "a", "n", "y", ".", "c", "o", "m">>,
                <<"I", "T", " ", "S", "u", "p", "p", "o", "r", "t">>, "ext. 4357"),
       Employee(<<"S", "a", "r", "a", "h", " ", "J", "o", "h", "n", "s", "o", "n">>,
                <<"s", "a", "r", "a", "h", ".", "j", "o", "h", "n", "s", "o", "n", "@", "c", "o", "m", "p", "a", "n", "y", ".", "c", "o", "m">>,
                <<"I", "T", " ", "S", "e", "c", "u", "r", "i", "t", "y">>, "ext. 4358"),
       Employee(<<"M", "i", "k", "e", " ", "C", "h", "e", "n">>,
                <<"m", "i", "k", "e", ".", "c", "h", "e", "n", "@", "c", "o", "m", "p", "a", "n", "y", ".", "c", "o", "m">>,
                <<"N", "e", "t", "w", "o", "r", "k", " ", "A", "d", "m", "i", "n">>, "ext. 4359"),
       Employee(<<"E", "m", "i", "l", "y", " ", "D", "a", "v", "i", "s">>,
                <<"e", "m", "i", "l", "y", ".", "d", "a", "v", "i", "s", "@", "c", "o", "m", "p", "a", "n", "y", ".", "c", "o", "m">>,
                <<"I", "T", " ", "M", "a", "n", "a", "g", "e", "r">>, "ext. 4350") >>

\* variant: the comparison keeps letter case
RECURSIVE SelectSeq2_CaseSensitive(_, _, _)
SelectSeq2_CaseSensitive(results, field, needle) ==
    IF results = <<>> THEN <<>>
    ELSE LET rest == SelectSeq2_CaseSensitive(Tail(results), field, needle)
         IN  IF StrContains(Head(results)[field], needle)
             THEN <<Head(results)>> \o rest
             ELSE rest

RECURSIVE SelectSeq2(_, _, _)
\* [e for e in results if needle.lower() in e[field].lower()]
SelectSeq2(results, field, needle) ==
    IF results = <<>> THEN <<>>
    ELSE LET rest == SelectSeq2(Tail(results), field, needle)
         IN  IF StrContains(StrLower(Head(results)[field]), StrLower(needle))
             THEN <<Head(results)>> \o rest
             ELSE rest

\* "if name:" holds for a non-empty string; None and "" skip the filter
Truthy(v) == v # None /\ v # <<>>

search_employee_directory(name, department, email) ==
    LET r0 == Employees
        r1 == IF Truthy(name) THEN SelectSeq2(r0, "name", name) ELSE r0
        r2 == IF Truthy(department) THEN SelectSeq2(r1, "department", department)
              ELSE r1
    IN  IF Truthy(email) THEN SelectSeq2(r2, "email", email) ELSE r2

----------------------------------------------------------------------------
(* execute_function: the dispatcher *)

\* the keys of AVAILABLE_FUNCTIONS
AVAILABLE_FUNCTIONS ==
    {"create_support_ticket", "check_ticket_status", "check_system_status",
     "search_employee_directory"}

\* FUNCTION_DEFINITIONS: the "required" list of each declared schema
SchemaRequired(name) ==
    CASE name = "create_support_ticket" -> {"title", "description", "category"}
      [] name = "check_ticket_status"       -> {"ticket_id"}
      [] name = "check_system_status"       -> {"system_name"}
      [] name = "search_employee_directory" -> {}

\* FUNCTION_DEFINITIONS: the "enum" lists of create_support_ticket
SchemaCategoryEnum ==
    {"password", "hardware", "software", "network", "access", "other"}
SchemaPriorityEnum == {"low", "medium", "high", "critical"}

\* the parameters of each function's def line
Params(name) ==
    CASE name = "create_support_ticket" ->
           {"title", "description", "category", "priority"}
      [] name = "check_ticket_status"       -> {"ticket_id"}
      [] name = "check_system_status"       -> {"system_name"}
      [] name = "search_employee_directory" -> {"name", "department", "email"}

\* the parameters without a default value
Required(name) ==
    CASE name = "create_support_ticket" -> {"title", "description", "category"}
      [] name = "check_ticket_status"       -> {"ticket_id"}
      [] name = "check_system_status"       -> {"system_name"}
      [] name = "search_employee_directory" -> {}

\* the value bound to parameter f: the keyword passed, or the default
Arg(arguments, f, default) ==
    IF f \in DOMAIN arguments THEN arguments[f] ELSE default

NoExc == [type |-> "none", fields |-> {}]

\* variant: a parameter that was not passed is bound to None
CallFunction_Lenient(name, arguments, db, counter, now) ==
    LET unexpected == DOMAIN arguments \ Params(name)
        fail(type, fields) ==
            [raised |-> TRUE, exc |-> [type |-> type, fields |-> fields],
             db |-> db, counter |-> counter, result |-> None]
        ok(result) ==
            [raised |-> FALSE, exc |-> NoExc, db |-> db, counter |-> counter,
             result |-> result]
    IN  IF unexpected # {} THEN fail("TypeError", unexpected)
        ELSE IF name = "create_support_ticket"
        THEN LET r == create_support_ticket(
                          db, counter, Arg(arguments, "title", None), Arg(arguments, "description", None),
                          Arg(arguments, "category", None),
                          Arg(arguments, "priority", DefaultPriority), now)
             IN  IF r.raised THEN fail("AttributeError", {"priority"})
                 ELSE [raised |-> FALSE, exc |-> NoExc, db |-> r.db,
                       counter |-> r.counter, result |-> r.value]
        ELSE IF name = "check_ticket_status"
        THEN ok(check_ticket_status(db, Arg(arguments, "ticket_id", None)))
        ELSE IF name = "check_system_status"
        THEN IF Arg(arguments, "system_name", None) = None
             THEN fail("AttributeError", {"system_name"})
             ELSE ok(check_system_status(Arg(arguments, "system_name", None)))
        ELSE ok(search_employee_directory(Arg(arguments, "name", None),
                                          Arg(arguments, "department", None),
                                          Arg(arguments, "email", None)))

\* result = function(**arguments): Python binds the keywords to the
\* parameters (TypeError on an unexpected keyword, then on a missing
\* parameter without default) and runs the function
CallFunction(name, arguments, db, counter, now) ==
    LET unexpected == DOMAIN arguments \ Params(name)
        missing    == Required(name) \ DOMAIN arguments
        fail(type, fields) ==
            [raised |-> TRUE, exc |-> [type |-> type, fields |-> fields],
             db |-> db, counter |-> counter, result |-> None]
        ok(result) ==
            [raised |-> FALSE, exc |-> NoExc, db |-> db, counter |-> counter,
             result |-> result]
    IN  IF unexpected # {} THEN fail("TypeError", unexpected)
        ELSE IF missing # {} THEN fail("TypeError", missing)
        ELSE IF name = "create_support_ticket"
        THEN LET r == create_support_ticket(
                          db, counter, arguments.title, arguments.description,
                          arguments.category,
                          Arg(arguments, "priority", DefaultPriority), now)
             IN  IF r.raised THEN fail("AttributeError", {"priority"})
                 ELSE [raised |-> FALSE, exc |-> NoExc, db |-> r.db,
                       counter |-> r.counter, result |-> r.value]
        ELSE IF name = "check_ticket_status"
        THEN ok(check_ticket_status(db, arguments.ticket_id))
        ELSE IF name = "check_system_status"
        THEN IF arguments.system_name = None
             THEN fail("AttributeError", {"system_name"})
             ELSE ok(check_system_status(arguments.system_name))
        ELSE ok(search_employee_directory(Arg(arguments, "name", None),
                                          Arg(arguments, "department", None),
                                          Arg(arguments, "email", None)))

\* json.dumps(value) and json.loads(text)
JsonDumps(value) == <<"json", value>>
JsonLoads(text)  == text[2]

\* variant: the function is looked up without the membership test
execute_function_NoLookupTest(function_name, arguments, db, counter, now) ==
    IF function_name \in AVAILABLE_FUNCTIONS
    THEN LET c == CallFunction(function_name, arguments, db, counter, now)
         IN  [raised |-> c.raised, exc |-> c.exc, db |-> c.db,
              counter |-> c.counter,
              text |-> IF c.raised THEN None ELSE JsonDumps(c.result)]
    ELSE [raised |-> TRUE, exc |-> [type |-> "KeyError", fields |-> {}],
          db |-> db, counter |-> counter, text |-> None]

\* execute_function(function_name, arguments)
execute_function(function_name, arguments, db, counter, now) ==
    IF function_name \in AVAILABLE_FUNCTIONS
    THEN LET c == CallFunction(function_name, arguments, db, counter, now)
         IN  [raised |-> c.raised, exc |-> c.exc, db |-> c.db,
              counter |-> c.counter,
              text |-> IF c.raised THEN None ELSE JsonDumps(c.result)]
    ELSE [raised |-> FALSE, exc |-> NoExc, db |-> db, counter |-> counter,
          text |-> JsonDumps(
                      [error |-> <<"Function ", function_name, " not found">>])]

\* ITSupportChatbot.call_function of chatbot_flexible.py:
\* json.loads(execute_function(function_name, arguments))
call_function(function_name, arguments, db, counter, now) ==
    LET e == execute_function(function_name, arguments, db, counter, now)
    IN  [raised |-> e.raised, exc |-> e.exc, db |-> e.db, counter |-> e.counter,
         text |-> e.text,
         dict |-> IF e.raised THEN None ELSE JsonLoads(e.text)]

NoDret == [op |-> "init", name |-> None, arguments |-> <<>>, raised |-> FALSE,
           exc |-> NoExc, text |-> None, dict |-> None]

\* one dispatch through call_function
ExecuteFunction(function_name, arguments, now) ==
    /\ function_name = "create_support_ticket"
          => Len(TICKET_DATABASE) < MaxDispatched
    /\ \E r \in {call_function(function_name, arguments, TICKET_DATABASE,
                                TICKET_COUNTER, now)} :
           /\ TICKET_DATABASE' = r.db
           /\ TICKET_COUNTER' = r.counter
           /\ issued' = IF Len(r.db) > Len(TICKET_DATABASE)
                        THEN Append(issued, r.dict.ticket_id)
                        ELSE issued
           /\ dret' = [op |-> "execute_function", name |-> function_name,
                       arguments |-> arguments, raised |-> r.raised,
                       exc |-> r.exc, text |-> r.text, dict |-> r.dict]
    /\ UNCHANGED <<fret, articles, session, pm>>
    /\ UNCHANGED <<chatVars, threadVars, rq>>

\* the calls the generation service or a caller hands to the dispatcher
CreateCalls ==
    {[title |-> "VPN down", description |-> "Cannot connect since this morning",
      category |-> "network", priority |-> "critical"],
     [title |-> "VPN down", description |-> "Cannot connect since this morning",
      category |-> "network"],
     [title |-> "VPN down", description |-> "Cannot connect since this morning",
      category |-> "coffee", priority |-> "CRITICAL"],
     [title |-> "VPN down", description |-> "Cannot connect since this morning",
      category |-> "network", priority |-> "urgent"],
     [title |-> "VPN down", description |-> "Cannot connect since this morning",
      category |-> "network", priority |-> None],
     [title |-> "VPN down", description |-> "Cannot connect since this morning"],
     [title |-> "VPN down", priority |-> "low"],
     [title |-> "VPN down", descr |-> "Cannot connect since this morning"]}

TicketStatusCalls ==
    {[ticket_id |-> <<"INC", 999>>], [ticket_id |-> <<"INC", 1000>>],
     [ticket_id |-> <<"INC", 1002>>], <<>>, [id |-> <<"INC", 1000>>]}

SystemNameInputs ==
    {<<"p", "r", "i", "n", "t", "e", "r">>,
     <<" ", "P", "r", "i", "n", "t", "e", "r", " ">>,
     <<"P", "R", "I", "N", "T", "E", "R">>,
     <<"F", "i", "l", "e", " ", "S", "e", "r", "v", "e", "r">>,
     <<"f", "i", "l", "e", "_", "s", "e", "r", "v", "e", "r">>,
     <<"n", "o", "n", "e", "x", "i", "s", "t", "e", "n", "t">>}

SystemStatusCalls ==
    {[system_name |-> n] : n \in SystemNameInputs} \cup {<<>>}

DirectoryCalls ==
    {<<>>,
     [name |-> <<"j", "o", "h", "n">>],
     [department |-> <<"i", "t", " ">>],
     [name |-> <<"S", "M", "I", "T", "H">>, department |-> <<"s", "e", "c", "u", "r", "i", "t", "y">>],
     [name |-> <<>>, email |-> <<"C", "h", "e", "n", "@", "C", "o", "m", "p", "a", "n", "y">>],
     [name |-> <<"I">>, department |-> <<"i", "t">>],
     [name |-> None, department |-> <<"I", "T">>, email |-> <<"S", "@", "C", "O", "M", "P", "A", "N", "Y">>]}

UnknownNames == {"schedule_maintenance", "delete_ticket"}

DispatchCalls ==
    ({"create_support_ticket"} \X CreateCalls)
      \cup ({"check_ticket_status"} \X TicketStatusCalls)
      \cup ({"check_system_status"} \X SystemStatusCalls)
      \cup ({"search_employee_directory"} \X DirectoryCalls)
      \cup (UnknownNames \X {<<>>, [ticket_id |-> <<"INC", 1000>>]})

----------------------------------------------------------------------------
(* create_support_ticket called from several sessions of one process: the  *)
(* script of each session runs in its own thread and all threads share the *)
(* module globals.  A thread can be preempted between the statements of    *)
(* the function and between the load and the store of TICKET_COUNTER += 1. *)

Threads == {"session A", "session B"}

Idle == [t \in Threads |-> "idle"]

\* ticket = {...}
ThreadBuild(t, title, description, category, priority, now) ==
    /\ pc[t] = "idle"
    /\ Len(issued) + Cardinality({u \in Threads : pc[u] # "idle"}) < MaxCreates
    /\ LET b == BuildTicket(TICKET_COUNTER, title, description, category,
                            priority, now)
       IN  IF b.raised
           THEN /\ fret' = [op |-> "create_support_ticket", raised |-> TRUE,
                            value |-> None]
                /\ UNCHANGED <<pc, ticketLocal>>
           ELSE /\ ticketLocal' = [ticketLocal EXCEPT ![t] = b.ticket]
                /\ pc' = [pc EXCEPT ![t] = "built"]
                /\ UNCHANGED fret
    /\ UNCHANGED <<TICKET_DATABASE, TICKET_COUNTER, issued, counterLocal>>
    /\ UNCHANGED <<chatVars, rq, auxVars>>

\* TICKET_DATABASE.append(ticket)
ThreadAppend(t) ==
    /\ pc[t] = "built"
    /\ TICKET_DATABASE' = Append(TICKET_DATABASE, ticketLocal[t])
    /\ pc' = [pc EXCEPT ![t] = "appended"]
    /\ UNCHANGED <<TICKET_COUNTER, issued, fret, ticketLocal, counterLocal>>
    /\ UNCHANGED <<chatVars, rq, auxVars>>

\* TICKET_COUNTER += 1, the load
ThreadLoad(t) ==
    /\ pc[t] = "appended"
    /\ counterLocal' = [counterLocal EXCEPT ![t] = TICKET_COUNTER]
    /\ pc' = [pc EXCEPT ![t] = "loaded"]
    /\ UNCHANGED <<TICKET_DATABASE, TICKET_COUNTER, issued, fret, ticketLocal>>
    /\ UNCHANGED <<chatVars, rq, auxVars>>

\* TICKET_COUNTER += 1, the store; then return ticket
ThreadStore(t) ==
    /\ pc[t] = "loaded"
    /\ TICKET_COUNTER' = Increment(counterLocal[t])
    /\ issued' = Append(issued, ticketLocal[t].ticket_id)
    /\ fret' = [op |-> "create_support_ticket", raised |-> FALSE,
                value |-> ticketLocal[t]]
    /\ pc' = [pc EXCEPT ![t] = "idle"]
    /\ UNCHANGED <<TICKET_DATABASE, ticketLocal, counterLocal>>
    /\ UNCHANGED <<chatVars, rq, auxVars>>

----------------------------------------------------------------------------
(* Specifications *)

NoFret == [op |-> "init", raised |-> FALSE, value |-> None]

NoPm == [pc |-> "idle", question |-> None, threshold |-> 0, before |-> 0,
         source_docs |-> <<>>, context_docs |-> <<>>, answer |-> None,
         trace |-> <<>>]

NoArticles == [query |-> None, k |-> 0, threshold |-> 0, docs |-> <<>>,
               result |-> <<>>]

NoRq == [query |-> None, k |-> 0, threshold |-> 0, asked |-> 0,
         fetched |-> <<>>, result |-> <<>>]

InitTickets ==
    /\ TICKET_DATABASE = <<>>
    /\ TICKET_COUNTER = CounterInit
    /\ issued = <<>>
    /\ fret = NoFret

InitThreads ==
    /\ pc = Idle
    /\ ticketLocal = [t \in Threads |-> None]
    /\ counterLocal = [t \in Threads |-> 0]

InitAux ==
    /\ articles = NoArticles
    /\ dret = NoDret
    /\ session = LiveSession
    /\ pm = NoPm

\* ITSupportChatbot(similarity_threshold=...) over the loaded index
InitChat ==
    /\ similarity_threshold = DefaultThreshold
    /\ chat_history = <<>>
    /\ ret = NoRet
    /\ tset = NoTset
    /\ prompt = NoPrompt
    /\ log = <<>>
    /\ calls = 0

Init ==
    /\ vector_store = KnowledgeIndex
    /\ InitChat
    /\ InitTickets
    /\ InitThreads
    /\ rq = <<NoRq, NoRq>>
    /\ InitAux

\* threshold values (tenths) callers pass to set_similarity_threshold
ChatThresholdInputs      == {-1, 5, 12}
RetrievalThresholdInputs == {0, 2, 5, 10}
ThresholdInputs          == {-1, 0, 2, 5, 10, 12}

Next ==
    \/ \E q \in Queries, f \in Faults, a \in Answers :
          ProcessMessage(q, f, a, NoCall)
    \/ reset_conversation
    \/ \E t \in ChatThresholdInputs : set_similarity_threshold(t)

Spec == Init /\ [][Next]_vars

(* Requests followed statement by statement, the threshold being changed *)
(* from another thread at any point                                       *)
NextSteps ==
    \/ \E q \in Queries : PmRetrieve(q)
    \/ PmAssemble
    \/ \E a \in Answers : PmGenerate(a)
    \/ PmAppend
    \/ PmReturn
    \/ \E t \in ChatThresholdInputs : set_similarity_threshold(t)

SpecSteps == Init /\ [][NextSteps]_vars

(* Start of a session: the index may be absent or unreadable *)
InitStartup ==
    /\ vector_store = NoStore
    /\ InitChat
    /\ InitTickets
    /\ InitThreads
    /\ rq = <<NoRq, NoRq>>
    /\ articles = NoArticles
    /\ dret = NoDret
    /\ session = NoSession
    /\ pm = NoPm

NextStartup ==
    \/ \E load \in LoadOutcomes : SessionInit(DefaultThreshold, load)
    \/ \E q \in Queries, f \in Faults, a \in Answers :
          /\ Initialized
          /\ calls < MaxSignalled
          /\ ProcessMessage(q, f, a, NoCall)
    \/ Initialized /\ calls < MaxSignalled /\ reset_conversation

SpecStartup == InitStartup /\ [][NextStartup]_vars

(* An instance built with any threshold argument, then used *)
ConstructorThresholds == ThresholdInputs \cup {DefaultThreshold, 15}

NextConstruct ==
    \/ \E t \in ConstructorThresholds, load \in LoadOutcomes : Construct(t, load)
    \/ /\ session.chatbot
       /\ \E t \in ThresholdInputs : set_similarity_threshold(t)
    \/ /\ session.chatbot
       /\ \E q \in Queries, k \in 1..MaxK : Retrieve(q, k)

SpecConstruct == InitStartup /\ [][NextConstruct]_vars

(* One session: chat, reset, threshold changes and a ticket from the form *)
NextSession ==
    \/ \E q \in Queries, f \in Faults, a \in Answers :
          ProcessMessage(q, f, a, NoCall)
    \/ reset_conversation
    \/ \E t \in ChatThresholdInputs : set_similarity_threshold(t)
    \/ /\ TICKET_DATABASE = <<>>
       /\ \E t \in Titles, d \in Descriptions, now \in Clock :
             CreateTicket(t, d, "network", DefaultPriority, now)

SpecSession == Init /\ [][NextSession]_vars

(* Requests whose generation step may signal a function call *)
FunctionCalls ==
    {NoCall,
     [name |-> "check_system_status",
      arguments |-> [system_name |-> <<"p", "r", "i", "n", "t", "e", "r">>]],
     [name |-> "create_support_ticket",
      arguments |-> [title |-> "VPN down",
                     description |-> "Cannot connect since this morning",
                     category |-> "network", priority |-> "critical"]]}

NextSignalled ==
    \E q \in Queries, f \in Faults, a \in Answers, c \in FunctionCalls :
        calls < MaxSignalled /\ ProcessMessage(q, f, a, c)

SpecSignalled == Init /\ [][NextSignalled]_vars

(* Retrieval over every index of three chunks *)
InitRetrieve ==
    /\ vector_store \in Stores
    /\ InitChat
    /\ InitTickets
    /\ InitThreads
    /\ rq = <<NoRq, NoRq>>
    /\ InitAux

NextRetrieve ==
    \/ \E q \in Queries, k \in 1..MaxK : Retrieve(q, k)
    \/ \E t \in RetrievalThresholdInputs : set_similarity_threshold(t)

SpecRetrieve == InitRetrieve /\ [][NextRetrieve]_vars

(* Threshold changes, in and out of range, between retrievals *)
NextThreshold ==
    \/ \E q \in Queries, k \in 1..MaxK : Retrieve(q, k)
    \/ \E t \in ThresholdInputs : set_similarity_threshold(t)

SpecThreshold == Init /\ [][NextThreshold]_vars

(* The article browser over every index of three chunks *)
ArticleQueries == Queries \cup {""}

NextArticles ==
    \/ \E q \in ArticleQueries, k \in 1..(MaxK + 1) : GetRelevantArticles(q, k)
    \/ \E t \in RetrievalThresholdInputs : set_similarity_threshold(t)

SpecArticles == InitRetrieve /\ [][NextArticles]_vars

(* Calls through the dispatcher, one after another *)
NextDispatch ==
    \E c \in DispatchCalls, now \in Clock : ExecuteFunction(c[1], c[2], now)

SpecDispatch == Init /\ [][NextDispatch]_vars

(* The ticket functions called one after another *)
NextTickets ==
    \/ \E ti \in Titles, d \in Descriptions, c \in Categories,
          p \in Priorities \cup {DefaultPriority}, now \in Clock :
          CreateTicket(ti, d, c, p, now)

SpecTickets == Init /\ [][NextTickets]_vars

(* create_support_ticket called from concurrent sessions *)
NextThreads ==
    \E t \in Threads :
        \/ \E ti \in Titles, d \in Descriptions, c \in Categories,
              p \in Priorities \cup {DefaultPriority}, now \in Clock :
              ThreadBuild(t, ti, d, c, p, now)
        \/ ThreadAppend(t)
        \/ ThreadLoad(t)
        \/ ThreadStore(t)

SpecThreads == Init /\ [][NextThreads]_vars

----------------------------------------------------------------------------
(* Properties *)

IdNumber(ticket_id) == ticket_id[2]

\* C1: the ticket ids issued by create_support_ticket calls made one after
\* another are pairwise distinct and strictly increasing in call order.
C1_IdsStrictlyIncreasing ==
    \A i, j \in 1..Len(issued) :
        i < j => /\ issued[i] # issued[j]
                 /\ issued[i][1] = "INC" /\ issued[j][1] = "INC"
                 /\ IdNumber(issued[i]) < IdNumber(issued[j])

\* three tickets issued one after another
C1_Witness ==
    /\ Len(issued) >= 3
    /\ fret.op = "create_support_ticket"
    /\ ~fret.raised

\* C2: under every interleaving of concurrent create_support_ticket calls no
\* two tickets receive the same ticket_id and no increment is lost.
C2_SerializedAllocation ==
    /\ \A i, j \in 1..Len(TICKET_DATABASE) :
          i # j => TICKET_DATABASE[i].ticket_id # TICKET_DATABASE[j].ticket_id
    /\ (\A t \in Threads : pc[t] = "idle")
          => TICKET_COUNTER = 1000 + Len(TICKET_DATABASE)

\* C3: after every completed process_message or reset_conversation call the
\* stored chat history holds at most 10 turns.
C3_HistoryAtMostTen == Len(chat_history) <= 10

\* a successful call that had to evict
C3_Witness ==
    /\ ret.op = "process_message"
    /\ ret.fault = "none"
    /\ Len(log) > 10
    /\ Len(chat_history) = 10

\* C4: when appends push the history over 10 turns, the turns kept are
\* exactly the 10 most recently appended, in append order.
C4_FifoEviction ==
    Len(log) > 10 =>
        /\ Len(chat_history) = 10
        /\ \A i \in 1..10 : chat_history[i] = log[Len(log) - 10 + i]

\* eviction has dropped a turn that differs from the oldest turn kept
C4_Witness ==
    /\ ret.op = "process_message"
    /\ ret.fault = "none"
    /\ Len(log) > 10
    /\ log[1] # chat_history[1]

\* C5: a process_message call in which retrieval or generation fails leaves
\* chat_history exactly as it was before the call.
C5_FailureKeepsHistory ==
    [][ (/\ calls' = calls + 1
         /\ ret'.op = "process_message"
         /\ ret'.fault # "none") => chat_history' = chat_history ]_vars

\* a generation failure with the history at its cap
C5_Witness ==
    /\ ret.op = "process_message"
    /\ ret.fault = "generation"
    /\ Len(chat_history) = 10

\* C6: whatever fails inside process_message, no exception escapes: the call
\* returns a user-facing error string, an empty sources list and no function
\* result.
C6_NoExceptionEscapes ==
    (ret.op = "process_message" /\ ret.fault # "none") =>
        /\ ~ret.raised
        /\ ret.value.response_text \in
              {"I encountered an error processing your request: embedding request failed",
               "I encountered an error processing your request: embedding request failed in chain",
               "I encountered an error processing your request: generation request failed"}
        /\ ret.value.sources = <<>>
        /\ ret.value.function_result = None

\* a call whose chain retrieval failed
C6_Witness ==
    /\ ret.op = "process_message"
    /\ ret.fault = "chain"
    /\ ~ret.raised

\* 1/(1+d) >= threshold/10, for a distance d >= 0
SimilarityAtLeast(d, threshold) == 10 >= threshold * (1 + d)

\* C7: every document returned by _retrieve_with_threshold has similarity
\* 1/(1+distance) at least the threshold active at the call.
C7_ReturnedMeetThreshold ==
    \A i \in 1..Len(rq[1].result) :
        SimilarityAtLeast(L2(EmbedQuery(rq[1].query), rq[1].result[i].doc),
                          rq[1].threshold)

\* a call that kept some candidates and rejected others
C7_Witness ==
    /\ rq[1].query # None
    /\ rq[1].threshold > 0
    /\ Len(rq[1].result) > 0
    /\ Len(rq[1].result) < Len(rq[1].fetched)
    /\ Len(rq[1].result) < rq[1].k

Passing(call) ==
    {i \in 1..Len(call.fetched) :
        SimilarityAtLeast(call.fetched[i].score, call.threshold)}

\* the j-th smallest element of a set of positions
NthOf(S, j) == CHOOSE i \in S : Cardinality({x \in S : x < i}) = j - 1

\* C9: retrieval asks the index for 2k neighbours and returns exactly the
\* first min(k, number passing) passing candidates of that list, in
\* descending similarity order, never more than k.
C9_FirstKPassing ==
    rq[1].query # None =>
        LET call == rq[1]
            n    == Min(call.k, Cardinality(Passing(call)))
        IN  /\ call.asked = 2 * call.k
            /\ call.fetched = similarity_search_with_score(
                                  vector_store, EmbedQuery(call.query), 2 * call.k)
            /\ Len(call.result) = n
            /\ Len(call.result) <= call.k
            /\ \A j \in 1..n :
                  call.result[j].doc = call.fetched[NthOf(Passing(call), j)].doc
            /\ \A i, j \in 1..Len(call.result) :
                  i < j => L2(EmbedQuery(call.query), call.result[i].doc)
                             <= L2(EmbedQuery(call.query), call.result[j].doc)

\* more candidates pass than k: the call stops at k
C9_Witness ==
    /\ rq[1].query # None
    /\ Cardinality(Passing(rq[1])) > rq[1].k
    /\ Len(rq[1].result) = rq[1].k

\* C10: when no chunk meets the threshold, process_message still completes:
\* the prompt context is the sentinel, the sources are empty and an answer is
\* returned.
C10_EmptyRetrievalDegrades ==
    (/\ ret.op = "process_message"
     /\ ret.fault = "none"
     /\ \A i \in 1..Len(vector_store) :
           ~SimilarityAtLeast(L2(EmbedQuery(ret.question), vector_store[i]),
                              ret.threshold)) =>
        /\ ~ret.raised
        /\ prompt.question = ret.question
        /\ prompt.context = <<"No relevant information found in the knowledge base.">>
        /\ ret.value.sources = <<>>
        /\ ret.value.response_text \in Answers

\* a completed call for a question that matches nothing
C10_Witness ==
    /\ ret.op = "process_message"
    /\ ret.fault = "none"
    /\ ~ret.raised
    /\ ret.value.sources = <<>>
    /\ prompt.context = <<"No relevant information found in the knowledge base.">>
    /\ ret.question = "quantum physics"

C12_UnknownFunctionPayload ==
    [][ (dret'.op = "execute_function"
           /\ dret'.name \notin {"create_support_ticket", "check_ticket_status",
                                 "check_system_status",
                                 "search_employee_directory"})
        => /\ ~dret'.raised
           /\ dret'.text = <<"json", dret'.dict>>
           /\ dret'.dict = [error |-> <<"Function ", dret'.name, " not found">>]
           /\ TICKET_DATABASE' = TICKET_DATABASE
           /\ TICKET_COUNTER' = TICKET_COUNTER
           /\ issued' = issued ]_vars

C12_Witness ==
    /\ dret.name = "delete_ticket"
    /\ DOMAIN dret.arguments = {"ticket_id"}
    /\ ~dret.raised
    /\ "error" \in DOMAIN dret.dict
    /\ Len(TICKET_DATABASE) = 2

C14_EnumsRejected ==
    [][ (/\ dret'.op = "execute_function"
         /\ dret'.name = "create_support_ticket"
         /\ \/ /\ "category" \in DOMAIN dret'.arguments
               /\ dret'.arguments.category \notin SchemaCategoryEnum
            \/ /\ "priority" \in DOMAIN dret'.arguments
               /\ dret'.arguments.priority \notin SchemaPriorityEnum)
        => /\ dret'.raised
           /\ TICKET_DATABASE' = TICKET_DATABASE
           /\ TICKET_COUNTER' = TICKET_COUNTER ]_vars

\* C15: when the generation step of a request signals a function call,
\* process_message invokes the dispatcher with that name and those arguments
\* and returns its result as function_result (the ticket store moving as the
\* dispatcher moves it); when no call is signalled, function_result is empty.
C15_SignalDispatched ==
    [][ (ret'.op = "process_message" /\ calls' = calls + 1
           /\ ret'.fault = "none")
        => IF ret'.signal.name = None
           THEN ret'.value.function_result = None
           ELSE /\ ret'.value.function_result # None
                /\ \E now \in Clock :
                     LET d == call_function(ret'.signal.name,
                                            ret'.signal.arguments,
                                            TICKET_DATABASE, TICKET_COUNTER, now)
                     IN  /\ ~d.raised
                         /\ ret'.value.function_result = d.dict
                         /\ TICKET_DATABASE' = d.db
                         /\ TICKET_COUNTER' = d.counter ]_vars

\* C16: get_relevant_articles never returns two entries with the same
\* article id; the retrieved chunks are in rank order, every retrieved article
\* appears once, represented by its highest-ranked chunk, the entries are in
\* rank order, and there are at most k of them.
C16_ArticlesDeduplicated ==
    articles.query # None =>
      LET r  == articles.result
          d  == articles.docs
          qv == EmbedQuery(articles.query)
          FirstOf(id) == CHOOSE j \in 1..Len(d) :
                            d[j].id = id /\ \A m \in 1..(j - 1) : d[m].id # id
      IN  /\ \A i, j \in 1..Len(r) : i # j => r[i].id # r[j].id
          /\ Len(r) <= articles.k
          /\ Len(d) <= articles.k
          /\ \A a, b \in 1..Len(d) : a < b => L2(qv, d[a]) <= L2(qv, d[b])
          /\ {r[i].id : i \in 1..Len(r)} = {d[j].id : j \in 1..Len(d)}
          /\ \A i \in 1..Len(r) :
                /\ r[i].title = d[FirstOf(r[i].id)].title
                /\ r[i].category = d[FirstOf(r[i].id)].category
                /\ r[i].preview =
                     SubSeq(d[FirstOf(r[i].id)].page_content, 1,
                            IF Len(d[FirstOf(r[i].id)].page_content) < 300
                            THEN Len(d[FirstOf(r[i].id)].page_content)
                            ELSE 300) \o <<"...">>
          /\ \A i, j \in 1..Len(r) :
                i < j => FirstOf(r[i].id) < FirstOf(r[j].id)

C16_Witness ==
    /\ articles.query = "reset password"
    /\ articles.k = 3
    /\ Len(articles.docs) = 3
    /\ articles.docs[1].id = articles.docs[3].id
    /\ articles.docs[2].id # articles.docs[1].id
    /\ Len(articles.result) = 2
    /\ articles.result[2].id = articles.docs[2].id

\* C17: reset_conversation empties the chat history from any state, changes
\* neither the similarity threshold nor the ticket store, and is idempotent:
\* a reset that follows a reset leaves the session as the first one left it.
C17_ResetClears ==
    [][ (ret'.op = "reset_conversation" /\ calls' = calls + 1)
        => /\ chat_history' = <<>>
           /\ similarity_threshold' = similarity_threshold
           /\ TICKET_DATABASE' = TICKET_DATABASE
           /\ TICKET_COUNTER' = TICKET_COUNTER
           /\ vector_store' = vector_store
           /\ ret.op = "reset_conversation"
                 => /\ chat_history' = chat_history
                    /\ prompt' = prompt
                    /\ tset' = tset ]_vars

C17_Witness ==
    /\ ret.op = "reset_conversation"
    /\ chat_history = <<>>
    /\ prompt.question # None
    /\ calls >= 7
    /\ similarity_threshold = 5
    /\ Len(TICKET_DATABASE) = 1

\* C18: the ticket store only grows; a check_ticket_status(id) made through
\* the dispatcher changes nothing and returns found = true exactly when id was
\* issued by an earlier create_support_ticket call, with the status, title,
\* priority, created_at and estimated_resolution of the ticket stored under
\* that id; for every other id it returns found = false and a message.
C18_LookupMatchesIssued ==
    [][ /\ Len(TICKET_DATABASE') >= Len(TICKET_DATABASE)
        /\ SubSeq(TICKET_DATABASE', 1, Len(TICKET_DATABASE)) = TICKET_DATABASE
        /\ (/\ dret'.op = "execute_function"
            /\ dret'.name = "check_ticket_status"
            /\ ~dret'.raised)
           => LET id == dret'.arguments.ticket_id
                  r  == dret'.dict
              IN  /\ TICKET_DATABASE' = TICKET_DATABASE
                  /\ TICKET_COUNTER' = TICKET_COUNTER
                  /\ r.found <=> \E i \in 1..Len(issued) : issued[i] = id
                  /\ r.found =>
                       \E i \in 1..Len(TICKET_DATABASE) :
                          /\ TICKET_DATABASE[i].ticket_id = id
                          /\ r.ticket_id = id
                          /\ r.status = TICKET_DATABASE[i].status
                          /\ r.title = TICKET_DATABASE[i].title
                          /\ r.priority = TICKET_DATABASE[i].priority
                          /\ r.created_at = TICKET_DATABASE[i].created_at
                          /\ r.estimated_resolution =
                                TICKET_DATABASE[i].estimated_resolution
                  /\ ~r.found =>
                       /\ DOMAIN r = {"found", "message"}
                       /\ r.message = <<"Ticket ", id, " not found in the system">>
      ]_vars

C18_Witness ==
    /\ dret.name = "check_ticket_status"
    /\ ~dret.raised
    /\ dret.arguments.ticket_id = <<"INC", 1000>>
    /\ dret.dict.found
    /\ dret.dict.priority = "critical"
    /\ Len(TICKET_DATABASE) = 3
    /\ TICKET_DATABASE[3].priority = "urgent"

RECURSIVE Squash(_)
Squash(s) ==
    IF s = <<>> THEN <<>>
    ELSE IF Head(s) \in {" ", "_"} THEN Squash(Tail(s))
    ELSE <<LowerChar(Head(s))>> \o Squash(Tail(s))

\* C20: check_system_status is insensitive to letter case and to whitespace:
\* the result of a call equals the result for every other name that differs
\* from the one passed only in case or in leading, trailing or internal
\* spaces.
C20_NameInsensitive ==
    (dret.name = "check_system_status" /\ ~dret.raised)
       => \A other \in SystemNameInputs :
             Squash(other) = Squash(dret.arguments.system_name)
                => check_system_status(other).status = dret.dict.status

\* needle occurs in hay when letter case is ignored
FoldedSubstring(needle, hay) ==
    \E i \in 0..(Len(hay) - Len(needle)) :
        \A j \in 1..Len(needle) : LowerChar(hay[i + j]) = LowerChar(needle[j])

\* the filters a directory call provides
ProvidedFilters(arguments) ==
    {f \in DOMAIN arguments : arguments[f] # None}

\* C21: search_employee_directory returns exactly the roster entries that
\* match every provided filter by case-insensitive substring, in roster
\* order; without filters it returns the whole roster, and the result for
\* several filters is the intersection of the results for each one alone.
C21_DirectoryFilters ==
    (dret.name = "search_employee_directory" /\ ~dret.raised)
       => LET given == ProvidedFilters(dret.arguments)
              Hit(e) == \A f \in given :
                           FoldedSubstring(dret.arguments[f], e[f])
              Alone(f) ==
                  search_employee_directory(
                      IF f = "name" THEN dret.arguments[f] ELSE None,
                      IF f = "department" THEN dret.arguments[f] ELSE None,
                      IF f = "email" THEN dret.arguments[f] ELSE None)
              InAll(e) == \A f \in given :
                             \E i \in 1..Len(Alone(f)) : Alone(f)[i] = e
          IN  /\ dret.dict = SelectSeq(Employees, Hit)
              /\ given = {} => dret.dict = Employees
              /\ dret.dict = SelectSeq(Employees, InAll)

C21_Witness ==
    /\ dret.name = "search_employee_directory"
    /\ ~dret.raised
    /\ DOMAIN dret.arguments = {"name", "department"}
    /\ dret.arguments.name = <<"I">>
    /\ Len(dret.dict) = 2
    /\ dret.dict[1] = Employees[1]
    /\ dret.dict[2] = Employees[4]

\* C22: a failure to load the persisted index is fatal to startup: the
\* constructor propagates the error, the session holds no chatbot and records
\* the error, and no chat message is ever processed unless a chatbot with a
\* loaded index exists.
C22_NoIndexNoService ==
    /\ session.chatbot <=> vector_store # <<>>
    /\ session.initialized = "false"
          => /\ ~session.chatbot
             /\ session.error \in {"missing", "corrupt"}
    /\ ret.op = "process_message" => session.chatbot /\ vector_store # <<>>
    /\ ~session.chatbot => ret.op = "init" /\ chat_history = <<>> /\ calls = 0

C22_Witness ==
    /\ session.initialized = "false"
    /\ session.error = "corrupt"
    /\ ~session.chatbot
    /\ vector_store = <<>>

\* C23: the history rendered into a request's prompt is the window of the
\* most recent stored turns, at most 6, oldest first: the j-th rendered line
\* is the j-th turn of that window, with its role label and its content, and
\* there are no other lines.
C23_RecentWindowInOrder ==
    [][ (/\ calls' = calls + 1
         /\ ret'.op = "process_message"
         /\ ret'.fault \in {"none", "generation"})
        => LET n    == IF Len(chat_history) < 6 THEN Len(chat_history) ELSE 6
               w(j) == chat_history[Len(chat_history) - n + j]
               r    == prompt'.chat_history
           IN  IF n = 0
               THEN r = <<"No previous conversation.">>
               ELSE /\ Len(r) = 3 * n - 1
                    /\ \A j \in 1..n :
                          /\ r[3 * j - 2] = IF w(j).role = "user"
                                            THEN "User: " ELSE "Assistant: "
                          /\ r[3 * j - 1] = w(j).content
                    /\ \A j \in 1..(n - 1) : r[3 * j] = "\n" ]_vars

\* a prompt rendered from a history holding more than 6 turns, whose window
\* shows two different questions
C23_Witness ==
    /\ ret.op = "process_message"
    /\ ret.fault = "none"
    /\ Len(log) >= 10
    /\ Len(prompt.chat_history) = 17
    /\ prompt.chat_history[2] # prompt.chat_history[8]

\* C24: a successful process_message runs retrieve, assemble prompt, call the
\* generation service, append to history, return, in this order; the history
\* is untouched until the generation call has returned, then the user turn
\* and the assistant turn are appended, user turn first; the history rendered
\* into the request's prompt is that of the turns stored before the request,
\* so it never shows the current question as its last line.
C24_StepOrder ==
    /\ pm.pc = "returned"
          => pm.trace = <<"retrieve", "assemble", "generate", "append", "return">>
    /\ pm.pc \in {"retrieved", "assembled", "generated"}
          => Len(log) = pm.before
    /\ pm.pc \in {"appended", "returned"}
          => /\ Len(log) = pm.before + 2
             /\ log[pm.before + 1] = [role |-> "user", content |-> pm.question]
             /\ log[pm.before + 2] = [role |-> "assistant", content |-> pm.answer]
    /\ pm.pc \in {"assembled", "generated", "appended", "returned"}
          => LET n == IF pm.before < 6 THEN pm.before ELSE 6
                 r == prompt.chat_history
             IN  /\ prompt.question = pm.question
                 /\ IF n = 0
                    THEN r = <<"No previous conversation.">>
                    ELSE /\ Len(r) = 3 * n - 1
                         /\ \A j \in 1..n :
                               r[3 * j - 1] = log[pm.before - n + j].content

C24_Witness ==
    /\ pm.pc = "returned"
    /\ pm.before = 2
    /\ Len(log) = 4
    /\ log[1].content # pm.question
    /\ Len(prompt.chat_history) = 5

\* C28: the sources returned by a successful process_message correspond one
\* to one, in order, to the documents rendered into the prompt context of
\* the same request, also when the threshold is changed from another thread
\* between the two retrievals of the request.
C28_SourcesMatchContext ==
    pm.pc = "returned"
       => /\ Len(ret.value.sources) = Len(pm.context_docs)
          /\ \A i \in 1..Len(pm.context_docs) :
                /\ ret.value.sources[i].id = pm.context_docs[i].id
                /\ ret.value.sources[i].content_preview =
                      SubSeq(pm.context_docs[i].page_content, 1,
                             IF Len(pm.context_docs[i].page_content) < 200
                             THEN Len(pm.context_docs[i].page_content)
                             ELSE 200) \o <<"...">>

\* C25: the ticket store is append-only across dispatcher operations: the
\* stored tickets stay as they are, in place; a create_support_ticket that
\* returns adds exactly one record and advances the counter by one; every
\* other operation, and a create_support_ticket that raises, leaves the store
\* and the counter unchanged.
C25_StoreAppendOnly ==
    [][ /\ Len(TICKET_DATABASE') >= Len(TICKET_DATABASE)
        /\ \A i \in 1..Len(TICKET_DATABASE) :
              TICKET_DATABASE'[i] = TICKET_DATABASE[i]
        /\ IF dret'.name = "create_support_ticket" /\ ~dret'.raised
           THEN /\ Len(TICKET_DATABASE') = Len(TICKET_DATABASE) + 1
                /\ TICKET_COUNTER' = TICKET_COUNTER + 1
           ELSE /\ TICKET_DATABASE' = TICKET_DATABASE
                /\ TICKET_COUNTER' = TICKET_COUNTER ]_vars

\* a name outside the table has been dispatched against a store of three
\* tickets that differ in priority
C25_Witness ==
    /\ Len(TICKET_DATABASE) = 3
    /\ TICKET_DATABASE[1].priority # TICKET_DATABASE[2].priority
    /\ TICKET_DATABASE[2].priority # TICKET_DATABASE[3].priority
    /\ dret.name = "schedule_maintenance"
    /\ ~dret.raised

\* C27: in every state reached by dispatcher calls made one after another,
\* calls that raise included, TICKET_COUNTER is 1000 plus the number of stored
\* tickets and the i-th stored ticket (from 0) has the id INC followed by
\* 1000 + i.
C27_CounterMatchesStore ==
    /\ TICKET_COUNTER = 1000 + Len(TICKET_DATABASE)
    /\ \A i \in 1..Len(TICKET_DATABASE) :
          TICKET_DATABASE[i].ticket_id = <<"INC", 1000 + i - 1>>

\* a create_support_ticket with a non-string priority has raised after two
\* tickets were stored
C27_Witness ==
    /\ dret.name = "create_support_ticket"
    /\ dret.raised
    /\ dret.exc.type = "AttributeError"
    /\ Len(TICKET_DATABASE) = 2
    /\ TICKET_COUNTER = 1002
    /\ TICKET_DATABASE[1].ticket_id = <<"INC", 1000>>

\* C26: after every completed process_message or reset_conversation call the
\* chat history has even length and alternates user turn, assistant turn,
\* beginning with a user turn; cutting the history to the cap never keeps an
\* assistant answer without the user question before it.
C26_HistoryAlternates ==
    /\ Len(chat_history) % 2 = 0
    /\ \A i \in 1..Len(chat_history) :
          chat_history[i].role = (IF i % 2 = 1 THEN "user" ELSE "assistant")

\* two whole exchanges have been evicted: the oldest turn kept is the user
\* question of the third exchange
C26_Witness ==
    /\ ret.op = "process_message"
    /\ Len(log) = 14
    /\ Len(chat_history) = 10
    /\ chat_history[1] = log[5]
    /\ chat_history[1].role = "user"
    /\ chat_history[2] = log[6]
    /\ chat_history[2].role = "assistant"

\* C29: in every state of a chatbot instance, from construction onwards and
\* after any set_similarity_threshold calls, the active similarity threshold
\* lies in [0,1].
C29_ThresholdInUnitRange ==
    session.chatbot =>
        /\ 0 <= similarity_threshold
        /\ similarity_threshold <= 10

\* the article comes from a retrieved chunk whose similarity to the query is
\* at least the threshold of the call
FromChunkMeetingThreshold(a) ==
    \E j \in 1..Len(articles.docs) :
        /\ articles.docs[j].id = a.id
        /\ SimilarityAtLeast(L2(EmbedQuery(articles.query), articles.docs[j]),
                             articles.threshold)

====
